---- MODULE Spec2Model ----
(***************************************************************************)
(* A model of the data collection pipeline of the API observability        *)
(* framework: src/src/functions/functions/data_collector_refactored.py     *)
(* with the helpers it imports from src/src/functions/common/ (config.py,  *)
(* keyvault.py, api_auth.py, storage.py).                                  *)
(*                                                                         *)
(* One invocation is a sequence of steps, one per external call: the       *)
(* secret lookups, the token exchange, each page request, and for each     *)
(* record the existence check and the upsert.  The secret store, the       *)
(* token endpoint, the upstream API and the table store are the            *)
(* environment: every call to them returns one of its possible outcomes.   *)
(***************************************************************************)
EXTENDS Integers, Sequences, FiniteSets, TLC

(***************************************************************************)
(* Bounds of the model.                                                    *)
(***************************************************************************)
MaxPages == 2
MaxMissing == 2
MaxClock == 1
MaxBatch == 2

(***************************************************************************)
(* JSON values, as response.json() builds them.  A Python dict keeps the   *)
(* order of its keys: it is a sequence of <<key, value>> pairs.            *)
(***************************************************************************)
JNull == [t |-> "null"]

JStr(s) == [t |-> "str", v |-> s]

JInt(n) == [t |-> "int", v |-> n]

JBool(b) == [t |-> "bool", v |-> b]

JList(s) == [t |-> "list", v |-> s]

JDict(p) == [t |-> "dict", v |-> p]

IsDict(j) == j.t = "dict"

\* bool(x) of Python
Truthy(j) ==
    CASE j.t = "null" -> FALSE
      [] j.t = "str" -> j.v # ""
      [] j.t = "int" -> j.v # 0
      [] j.t = "bool" -> j.v
      [] OTHER -> j.v # <<>>

HasKey(d, k) == \E i \in DOMAIN d.v : d.v[i][1] = k

\* d.get(k, default)
DictGet(d, k, default) ==
    IF HasKey(d, k)
    THEN d.v[CHOOSE i \in DOMAIN d.v : d.v[i][1] = k][2]
    ELSE default

\* a or b
PyOr(a, b) == IF Truthy(a) THEN a ELSE b

\* str(x), for the scalars a record field holds
PyStr(j) ==
    CASE j.t = "str" -> j.v
      [] j.t = "int" -> ToString(j.v)
      [] j.t = "null" -> "None"
      [] j.t = "bool" -> IF j.v THEN "True" ELSE "False"
      [] OTHER -> "<object>"

(***************************************************************************)
(* config.py                                                               *)
(***************************************************************************)
CORE_REQUIRED == {"KEY_VAULT_URL"}

API_REQUIRED == {"API_BASE_URL", "API_AUTH_TYPE", "API_DATA_ENDPOINT", "API_ID_FIELD"}

AUTH_TYPE_REQUIREMENTS(auth_type) ==
    CASE auth_type = "oauth2" ->
           {"API_CLIENT_ID_SECRET_NAME", "API_CLIENT_SECRET_SECRET_NAME", "API_TOKEN_URL"}
      [] auth_type = "apikey" -> {"API_KEY_SECRET_NAME"}
      [] auth_type = "bearer" -> {"API_KEY_SECRET_NAME"}
      [] OTHER -> {}

StorageSettings == {"STORAGE_ACCOUNT_NAME", "STORAGE_CONNECTION_STRING"}

\* The settings whose absence the program looks at.  API_AUTH_TYPE is kept
\* apart because its value is read too: env.auth_type = "" when it is unset.
PresenceSettings ==
    CORE_REQUIRED \cup StorageSettings \cup (API_REQUIRED \ {"API_AUTH_TYPE"})
    \cup AUTH_TYPE_REQUIREMENTS("oauth2") \cup AUTH_TYPE_REQUIREMENTS("apikey")

AuthTypeValues == {"", "oauth2", "apikey", "bearer", "basic"}

\* os.environ.get(name) is truthy
IsSet(env, name) ==
    IF name = "API_AUTH_TYPE" THEN env.auth_type # "" ELSE name \notin env.missing

\* os.environ.get("API_AUTH_TYPE", "apikey")
EnvAuthType(env) == IF env.auth_type = "" THEN "apikey" ELSE env.auth_type

_check_required_vars(env, var_list) == {var \in var_list : ~IsSet(env, var)}

\* The errors validate_environment collects (empty: it returns normally).
validate_environment(env) ==
    LET missing_core == _check_required_vars(env, CORE_REQUIRED)
        no_storage == ~IsSet(env, "STORAGE_ACCOUNT_NAME")
                      /\ ~IsSet(env, "STORAGE_CONNECTION_STRING")
        missing_auth ==
            _check_required_vars(env, AUTH_TYPE_REQUIREMENTS(EnvAuthType(env)))
    IN  (IF missing_core # {} THEN {"core"} ELSE {})
        \cup (IF no_storage THEN {"storage"} ELSE {})
        \cup (IF missing_auth # {} THEN {"auth"} ELSE {})

\* Faulty variant: API_ID_FIELD and API_DATA_ENDPOINT are not checked
validate_api_collection_config_short(env) ==
    _check_required_vars(env, {"API_BASE_URL", "API_AUTH_TYPE"})

\* The settings validate_api_collection_config finds missing.
validate_api_collection_config(env) == _check_required_vars(env, API_REQUIRED)

\* The exception the two validations of api_data_collector raise, "" if none.
ValidationError(env) ==
    IF validate_environment(env) # {} THEN "ConfigurationError"
    ELSE IF validate_api_collection_config(env) # {} THEN "ConfigurationError"
    ELSE ""

get_api_config(env) ==
    [auth_type |-> EnvAuthType(env),
     query_type |-> env.query_type,
     id_field |-> "id",
     response_path |-> env.response_path,
     pagination_enabled |-> (env.pagination = "true"),
     page_size |-> "100",
     max_pages |-> env.max_pages,
     full_query |-> <<>>]

(***************************************************************************)
(* data_collector_refactored.py: the pure parts of a page fetch            *)
(***************************************************************************)
\* The AttributeError of a call of .get on a value that is not a dict
Raised == [t |-> "raised", v |-> "AttributeError"]

\* records.get(key, []), on any value
GetOrRaise(records, key) ==
    IF IsDict(records) THEN DictGet(records, key, JList(<<>>)) ELSE Raised

RECURSIVE WalkPathUnguarded(_, _)
\* Faulty variant: the loop without its isinstance test, every key looked up
\* in whatever value was reached.
WalkPathUnguarded(records, keys) ==
    IF keys = <<>> \/ records.t = "raised" THEN records
    ELSE WalkPathUnguarded(GetOrRaise(records, Head(keys)), Tail(keys))

RECURSIVE WalkPath(_, _)
\* The for loop of extract_records_from_response over response_path.split('.')
WalkPath(records, keys) ==
    IF keys = <<>> THEN records
    ELSE IF IsDict(records)
         THEN WalkPath(GetOrRaise(records, Head(keys)), Tail(keys))
         ELSE records

\* An exception leaves extract_records_from_response
ExtractRaises(data, response_path) == WalkPath(data, response_path).t = "raised"

\* Faulty variant: every value that is not a list is wrapped, the falsy ones
\* too.
extract_wrapping_falsy(data, response_path) ==
    LET records == WalkPath(data, response_path)
    IN  IF records.t = "list" THEN records.v ELSE <<records>>

\* Returns the Python list as a sequence.
extract_records_from_response(data, response_path) ==
    LET records == WalkPath(data, response_path)
    IN  IF records.t = "list" THEN records.v
        ELSE IF Truthy(records) THEN <<records>> ELSE <<>>

\* fetch_rest_page, line 124.  data.get raises AttributeError when data (or
\* data["pagination"]) is not a dict.
RestCursorRaises(data) ==
    \/ ~IsDict(data)
    \/ /\ ~Truthy(PyOr(DictGet(data, "nextCursor", JNull), DictGet(data, "next", JNull)))
       /\ ~IsDict(DictGet(data, "pagination", JDict(<<>>)))

RestNextCursor(data) ==
    PyOr(PyOr(DictGet(data, "nextCursor", JNull), DictGet(data, "next", JNull)),
         DictGet(DictGet(data, "pagination", JDict(<<>>)), "cursor", JNull))

\* fetch_graphql_page, lines 154-155
GraphqlCursorRaises(data) ==
    \/ ~IsDict(data)
    \/ ~IsDict(DictGet(data, "data", JDict(<<>>)))
    \/ ~IsDict(DictGet(DictGet(data, "data", JDict(<<>>)), "pageInfo", JDict(<<>>)))

\* Faulty variant: endCursor taken whatever hasNextPage says
GraphqlNextCursorAlways(data) ==
    DictGet(DictGet(DictGet(data, "data", JDict(<<>>)), "pageInfo", JDict(<<>>)),
            "endCursor", JNull)

GraphqlNextCursor(data) ==
    LET page_info == DictGet(DictGet(data, "data", JDict(<<>>)), "pageInfo", JDict(<<>>))
    IN  IF Truthy(DictGet(page_info, "hasNextPage", JNull))
        THEN DictGet(page_info, "endCursor", JNull)
        ELSE JNull

\* A GraphQL query is a sequence of text pieces; "$cursor", "first:" and
\* "after:" are pieces of their own where the text holds them.
inject_graphql_cursor(query, cursor, page_size) ==
    IF \E i \in DOMAIN query : query[i] = "$cursor"
    THEN [i \in DOMAIN query |-> IF query[i] = "$cursor" THEN cursor ELSE query[i]]
    ELSE IF (\E i \in DOMAIN query : query[i] = "first:")
            /\ ~(\E i \in DOMAIN query : query[i] = "after:")
         THEN [i \in DOMAIN query |->
                  IF query[i] = "first:"
                  THEN "first: " \o page_size \o ", after: \"" \o cursor \o "\","
                  ELSE query[i]]
         ELSE query

\* Faulty variant: the cursor is never appended
RestRequestWithoutCursor(cursor, config) ==
    [method |-> "GET", limit |-> config.page_size, cursor |-> JNull]

\* The request fetch_rest_page sends: ?limit=<page_size>[&cursor=<cursor>]
RestRequest(cursor, config) ==
    [method |-> "GET", limit |-> config.page_size,
     cursor |-> IF Truthy(cursor) THEN cursor ELSE JNull]

\* The request fetch_graphql_page sends: {"query": query}
GraphqlRequest(cursor, config) ==
    [method |-> "POST",
     query |-> IF Truthy(cursor)
               THEN inject_graphql_cursor(config.full_query, PyStr(cursor), config.page_size)
               ELSE config.full_query]

PageRequest(cursor, config) ==
    IF config.query_type = "graphql" THEN GraphqlRequest(cursor, config)
    ELSE RestRequest(cursor, config)

\* What one of the two page functions does with a 2xx response body:
\* it raises, or returns (records, next_cursor).
PageResult(data, config) ==
    LET graphql == config.query_type = "graphql"
        raises == IF graphql THEN GraphqlCursorRaises(data) ELSE RestCursorRaises(data)
    IN  IF raises THEN [raised |-> TRUE]
        ELSE [raised |-> FALSE,
              records |-> extract_records_from_response(data, config.response_path),
              cursor |-> IF graphql THEN GraphqlNextCursor(data) ELSE RestNextCursor(data)]

\* Faulty variant: the page count compared with <= (one page too many)
LoopContinuesOffByOne(has_next, count, max_pages) == has_next /\ count <= max_pages

\* The condition of the while loop of fetch_all_records
LoopContinues(has_next, count, max_pages) == has_next /\ count < max_pages

(***************************************************************************)
(* data_collector_refactored.py: the pure parts of store_records           *)
(***************************************************************************)
\* datetime.utcnow().isoformat() + 'Z', the clock being a counter
Stamp(clock) == "T" \o ToString(clock) \o "Z"

\* key.replace('.', '_').replace('/', '_') on the field names of the model
SafeKey(key) ==
    CASE key = "a.b" -> "a_b"
      [] key = "a/b" -> "a_b"
      [] OTHER -> key

\* entity[k] = v
SetField(entity, k, val) == (k :> val) @@ entity

\* str(value) if value is not None else ""
FieldText(value) == IF value.t = "null" THEN "" ELSE PyStr(value)

RECURSIVE MapFields(_, _, _)
\* for api_field, storage_field in field_mapping.items()
MapFields(entity, record, mapping) ==
    IF mapping = <<>> THEN entity
    ELSE MapFields(SetField(entity, Head(mapping)[2],
                            FieldText(DictGet(record, Head(mapping)[1], JStr("")))),
                   record, Tail(mapping))

RECURSIVE CopyFieldsAsNamed(_, _)
\* Faulty variant: every field copied under the name the record gives it
CopyFieldsAsNamed(entity, items) ==
    IF items = <<>> THEN entity
    ELSE CopyFieldsAsNamed(SetField(entity, Head(items)[1], FieldText(Head(items)[2])),
                           Tail(items))

RECURSIVE CopyFields(_, _)
\* for key, value in record.items()
CopyFields(entity, items) ==
    IF items = <<>> THEN entity
    ELSE CopyFields(SetField(entity, SafeKey(Head(items)[1]), FieldText(Head(items)[2])),
                    Tail(items))

\* record.get raises AttributeError on a record that is not a dict
TransformRaises(record) == ~IsDict(record)

transform_record_to_entity(record, partition_key, id_field, field_mapping, clock) ==
    LET entity == [PartitionKey |-> partition_key,
                   RowKey |-> PyStr(DictGet(record, id_field, JStr("unknown"))),
                   fetched_at |-> Stamp(clock)]
    IN  IF field_mapping # <<>>
        THEN MapFields(entity, record, field_mapping)
        ELSE CopyFields(entity, record.v)

\* The except clause of store_records evaluates record.get(id_field) for its
\* log line: on a record that is not a dict this raises inside the handler.
HandlerRaises(record) == ~IsDict(record)

EntityKey(entity) == <<entity["PartitionKey"], entity["RowKey"]>>

\* Faulty variant: get_entity finds no key
ExistsNever(table, entity) == FALSE

\* table_client.get_entity finds the key
Exists(table, entity) == EntityKey(entity) \in DOMAIN table

\* Faulty variant: the write leaves the table with the written entity alone
upsert_entity_alone(table, entity) == EntityKey(entity) :> entity

\* table_client.upsert_entity(entity), called without a mode argument: the
\* azure-data-tables client then uses UpdateMode.MERGE, which inserts the
\* entity or merges its properties into the stored one.
upsert_entity(table, entity) ==
    LET key == EntityKey(entity)
    IN  IF key \in DOMAIN table
        THEN (key :> (entity @@ table[key])) @@ table
        ELSE (key :> entity) @@ table

\* Faulty variant: every record is counted as an update
CountCheckAlwaysUpdate(counts, found) == [counts EXCEPT !.update_count = @ + 1]

\* Faulty variant: every record is counted as new
CountCheckAlwaysNew(counts, found) == [counts EXCEPT !.new_count = @ + 1]

\* The counters after the existence check of one record
CountCheck(counts, found) ==
    IF found THEN [counts EXCEPT !.update_count = @ + 1]
    ELSE [counts EXCEPT !.new_count = @ + 1]

(***************************************************************************)
(* The inputs: the records, response bodies and settings the environment   *)
(* is drawn from.                                                          *)
(***************************************************************************)
RecA == JDict(<< <<"id", JInt(1)>>, <<"x", JStr("a")>> >>)

RecB == JDict(<< <<"id", JInt(1)>> >>)

RecU == JDict(<< <<"x", JStr("b")>> >>)

\* A second record without the id field, with a field of its own
RecV == JDict(<< <<"y", JStr("c")>> >>)

Scalar == JStr("s")

\* What a REST body holds under "items", and the fields it names a cursor by
ItemsParts ==
    { <<>>,
      << <<"items", JList(<<RecA>>)>> >>,
      << <<"items", JList(<<RecB, RecU>>)>> >>,
      << <<"items", Scalar>> >> }

CursorParts ==
    { <<>>,
      << <<"nextCursor", JStr("c1")>> >>,
      << <<"nextCursor", JStr("")>>, <<"next", JStr("c2")>> >>,
      << <<"pagination", JDict(<< <<"cursor", JStr("c1")>> >>)>> >> }

RestBodies ==
    {JDict(i \o c) : i \in ItemsParts, c \in CursorParts} \cup {JList(<<RecA>>)}

PageInfos ==
    { <<>>,
      << <<"pageInfo", JDict(<< <<"hasNextPage", JBool(TRUE)>>, <<"endCursor", JStr("c1")>> >>)>> >>,
      << <<"pageInfo", JDict(<< <<"hasNextPage", JBool(FALSE)>>, <<"endCursor", JStr("c2")>> >>)>> >>,
      << <<"pageInfo", JDict(<< <<"hasNextPage", JBool(TRUE)>>, <<"endCursor", JStr("")>> >>)>> >> }

GraphqlBodies ==
    {JDict(<< <<"data", JDict(i \o p)>> >>) : i \in ItemsParts, p \in PageInfos}
    \cup {JDict(<< <<"data", JNull>> >>)}

Bodies(config) == IF config.query_type = "graphql" THEN GraphqlBodies ELSE RestBodies

\* The responses of the token endpoint
\* The responses of the token endpoint to the exchange of invocation n: the
\* endpoint issues a token of its own for every exchange
TokenResponses(n) ==
    { [ok |-> FALSE, body |-> JDict(<<>>)],
      [ok |-> TRUE, body |-> JDict(<<>>)],
      [ok |-> TRUE, body |-> JDict(<< <<"access_token", JStr("")>> >>)],
      [ok |-> TRUE, body |-> JDict(<< <<"access_token", JStr("tok" \o ToString(n))>> >>)] }

\* FIELD_MAPPING after json.loads: the (api_field, storage_field) pairs
FieldMappings == { <<>>, << <<"x", "X">> >> }

\* The settings the selected auth type makes the program read
ReadSettings(auth_type) ==
    CORE_REQUIRED \cup StorageSettings \cup (API_REQUIRED \ {"API_AUTH_TYPE"})
    \cup AUTH_TYPE_REQUIREMENTS(IF auth_type = "" THEN "apikey" ELSE auth_type)

MissingSets(auth_type) ==
    {m \in SUBSET ReadSettings(auth_type) : Cardinality(m) <= MaxMissing}

ResponsePath(query_type) ==
    IF query_type = "graphql" THEN <<"data", "items">> ELSE <<"items">>

MkEnv(m, a, p, n, q, fm) ==
    [missing |-> m, auth_type |-> a, pagination |-> p, max_pages |-> n,
     query_type |-> q, response_path |-> ResponsePath(q),
     field_mapping |-> fm, partition_key |-> "api_data"]

\* os.environ as a timer invocation may find it
RunEnvs ==
    UNION {{MkEnv(m, a, p, n, q, <<>>) :
               m \in MissingSets(a), p \in {"", "true"},
               n \in 0..MaxPages, q \in {"rest", "graphql"}} :
           a \in AuthTypeValues}

\* An entity an earlier run left in the table
OldEntity ==
    [PartitionKey |-> "api_data", RowKey |-> "1", fetched_at |-> "T0Z",
     id |-> "1", old |-> "o"]

InitTables == {<<>>, EntityKey(OldEntity) :> OldEntity}

(***************************************************************************)
(* The state                                                               *)
(***************************************************************************)
VARIABLES
    pc,             \* where the invocation stands
    entry,          \* the function the caller invoked
    env,            \* os.environ
    api_config,     \* the dict get_api_config returned
    creds,          \* the secret values get_api_credentials has read so far
    headers,        \* the headers get_auth_headers returned
    all_records,    \* fetch_all_records: all_records
    has_next_page,  \* fetch_all_records: has_next_page
    cursor,         \* fetch_all_records: cursor
    page_count,     \* fetch_all_records: page_count
    records,        \* the list handed to store_records
    idx,            \* store_records: the position of the for loop (from 1)
    counts,         \* store_records: new_count and update_count
    entity,         \* store_records: the entity of the current record
    table,          \* the table store: (PartitionKey, RowKey) -> entity
    clock,          \* the time datetime.utcnow() reads
    err,            \* the exception that left the invoked function, and the step that raised it
    net,            \* the calls made to external services in this invocation
    pages,          \* what each fetched page returned: (records, cursor)
    written,        \* the positions of records whose upsert_entity returned
    failed,         \* the positions of records whose processing raised
    table0,         \* the table when the invocation began
    prev,           \* the outcome of the preceding store_records call
    call,           \* the function applied on its own: its arguments and its result
    other,          \* the locals of a second store_records call, while it does not run
    last_upsert,    \* for each key, the entity of the last upsert_entity call that returned
    secret_client,  \* _secret_client of keyvault.py, kept by the process between runs
    vault,          \* the version of the secrets the Key Vault holds
    runs            \* the number of the invocation, the first being 1

vars ==
    <<pc, entry, env, api_config, creds, headers, all_records, has_next_page, cursor,
      page_count, records, idx, counts, entity, table, clock, err, net, pages,
      written, failed, table0, prev, call, other, last_upsert, secret_client, vault,
      runs>>

\* What outlives one invocation in the process and its surroundings
processVars == <<secret_client, vault, runs>>

fetchVars == <<all_records, has_next_page, cursor, page_count, pages>>

storeVars == <<records, idx, counts, entity, written, failed>>

NoConfig == get_api_config(MkEnv({}, "apikey", "", 0, "rest", <<>>))

NoEnv == MkEnv({}, "apikey", "", 0, "rest", <<>>)

NoHeaders == ("Content-Type" :> "") @@ ("Authorization" :> "")

NoEntity == [PartitionKey |-> "", RowKey |-> ""]

NoPrev == [called |-> FALSE]

NoCall == [fn |-> ""]

NoOther == [pc |-> "none"]

NoError == [type |-> "", at |-> ""]

ZeroCounts == [new_count |-> 0, update_count |-> 0]

Init ==
    /\ pc = "idle"
    /\ entry = "none"
    /\ env = NoEnv
    /\ api_config = NoConfig
    /\ creds = <<>>
    /\ headers = NoHeaders
    /\ all_records = <<>>
    /\ has_next_page = TRUE
    /\ cursor = JNull
    /\ page_count = 0
    /\ records = <<>>
    /\ idx = 0
    /\ counts = ZeroCounts
    /\ entity = NoEntity
    /\ table \in InitTables
    /\ clock \in 0..MaxClock
    /\ err = NoError
    /\ net = <<>>
    /\ pages = <<>>
    /\ written = {}
    /\ failed = {}
    /\ table0 = table
    /\ prev = NoPrev
    /\ call = NoCall
    /\ other = NoOther
    /\ last_upsert = <<>>
    /\ secret_client = "none"
    /\ vault = 1
    /\ runs = 1

\* An exception leaves the invoked function: api_data_collector logs it and
\* re-raises it (lines 51-53); nothing catches it in the other functions.
Raise(e, step) ==
    /\ pc' = "failed"
    /\ err' = [type |-> e, at |-> step]

Call(service, arg) == [call |-> service, with |-> arg]

(***************************************************************************)
(* api_data_collector, invoked by the timer                                *)
(***************************************************************************)
\* Lines 33-39: the two validations and get_api_config.  fetch_all_records
\* is entered when they return.
StartRun ==
    /\ pc = "idle"
    /\ \E e \in RunEnvs :
          /\ env' = e
          /\ IF ValidationError(e) # ""
             THEN Raise(ValidationError(e), "config") /\ api_config' = api_config
             ELSE pc' = "auth" /\ err' = err /\ api_config' = get_api_config(e)
    /\ entry' = "run"
    /\ UNCHANGED <<creds, headers, fetchVars, storeVars, table, clock, net, table0, prev>>
    /\ UNCHANGED <<call, other, last_upsert, processVars>>

(***************************************************************************)
(* get_auth_headers (api_auth.py) and get_api_credentials (keyvault.py)    *)
(***************************************************************************)
\* The credentials get_api_credentials reads from the secret store, in order
SecretNames(auth_type) ==
    CASE auth_type = "oauth2" -> <<"client_id", "client_secret">>
      [] auth_type \in {"apikey", "bearer"} -> <<"api_key">>
      [] OTHER -> <<>>

\* secret.value of the secret the Key Vault holds under the name
SecretValue(name, version) == name \o "-value" \o ToString(version)

\* get_keyvault_client: the client kept by the module, made on the first call
get_keyvault_client(client) == IF client # "none" THEN client ELSE "SecretClient"

\* Faulty variant: the value is sent without the Bearer scheme
AuthHeadersNoScheme(value) ==
    ("Content-Type" :> "application/json") @@ ("Authorization" :> value)

\* headers["Authorization"] = f"Bearer {...}"
AuthHeaders(value) ==
    ("Content-Type" :> "application/json") @@ ("Authorization" :> ("Bearer " \o value))

\* get_api_credentials, lines 114-115: no secret is looked up
AuthUnsupported ==
    /\ pc = "auth"
    /\ SecretNames(api_config.auth_type) = <<>>
    /\ Raise("ValueError", "credentials")
    /\ UNCHANGED <<entry, env, api_config, creds, headers, fetchVars, storeVars, table,
                   clock, net, table0, prev>>
    /\ UNCHANGED <<call, other, last_upsert, processVars>>

\* One get_secret call; after the last one the headers are built, or the
\* token exchange is next.
GetSecret ==
    /\ pc = "auth"
    /\ Len(creds) < Len(SecretNames(api_config.auth_type))
    /\ LET name == SecretNames(api_config.auth_type)[Len(creds) + 1]
           last == Len(creds) + 1 = Len(SecretNames(api_config.auth_type))
       IN  /\ net' = Append(net, Call("get_secret", name))
           /\ secret_client' = get_keyvault_client(secret_client)
           /\ \/ /\ creds' = Append(creds, SecretValue(name, vault))
                 /\ err' = err
                 /\ IF ~last THEN pc' = "auth" /\ headers' = headers
                    ELSE IF api_config.auth_type = "oauth2"
                         THEN pc' = "token" /\ headers' = headers
                         ELSE pc' = "loop" /\ headers' = AuthHeaders(SecretValue(name, vault))
              \/ /\ Raise("ResourceNotFoundError", "credentials")
                 /\ UNCHANGED <<creds, headers>>
    /\ UNCHANGED <<entry, env, api_config, fetchVars, storeVars, table, clock, table0, prev>>
    /\ UNCHANGED <<call, other, last_upsert, vault, runs>>

\* Faulty variant: only an absent access_token is refused
TokenMissingOnlyAbsent(access_token) == access_token.t = "null"

\* _get_oauth2_token, line 96: if not access_token
TokenMissing(access_token) == ~Truthy(access_token)

\* _get_oauth2_token: one POST to the token endpoint
TokenExchange ==
    /\ pc = "token"
    /\ IF ~IsSet(env, "API_TOKEN_URL")
       THEN Raise("ValueError", "token") /\ UNCHANGED <<net, headers>>
       ELSE /\ net' = Append(net, Call("token", creds))
            /\ \E r \in TokenResponses(runs) :
                  LET access_token == DictGet(r.body, "access_token", JNull)
                  IN  IF ~r.ok THEN Raise("HTTPError", "token") /\ headers' = headers
                      ELSE IF TokenMissing(access_token)
                           THEN Raise("ValueError", "token") /\ headers' = headers
                           ELSE /\ pc' = "loop"
                                /\ err' = err
                                /\ headers' = AuthHeaders(access_token.v)
    /\ UNCHANGED <<entry, env, api_config, creds, fetchVars, storeVars, table, clock,
                   table0, prev>>
    /\ UNCHANGED <<call, other, last_upsert, processVars>>

(***************************************************************************)
(* fetch_all_records                                                       *)
(***************************************************************************)
\* return all_records: the locals are gone; api_data_collector goes on to
\* store_records with the list.
FetchReturns(result) ==
    /\ pc' = (IF entry = "run" THEN "store_records" ELSE "fetched")
    /\ records' = result
    /\ all_records' = <<>>
    /\ has_next_page' = TRUE
    /\ cursor' = JNull
    /\ page_count' = 0

\* Faulty variant: the empty batch does not end the loop
BreaksOnEmptyNever(batch) == FALSE

\* Line 87: if not records: break
BreaksOnEmpty(batch) == batch = <<>>

\* Faulty variant: the pagination flag is not looked at
BreaksOnSinglePageNever(config) == FALSE

\* Line 95: if not api_config["pagination_enabled"]: break
BreaksOnSinglePage(config) == ~config.pagination_enabled

\* Faulty variant: the batch is put in front of the records held
ExtendInFront(all, batch) == batch \o all

\* Line 91: all_records.extend(records)
Extend(all, batch) == all \o batch

\* Faulty variant: the loop goes on whatever the cursor
HasNextAlways(next_cursor) == TRUE

\* Line 98: has_next_page = bool(cursor)
HasNext(next_cursor) == Truthy(next_cursor)

\* Faulty variant: the failure is logged and the pages fetched so far are returned
PageFailureReturnsPartial(e) ==
    /\ err' = [type |-> e, at |-> "page"]
    /\ FetchReturns(all_records)

\* A page function raised (raise_for_status, or a body it cannot read):
\* nothing in fetch_all_records catches it.
PageFailure(e) ==
    /\ Raise(e, "page")
    /\ page_count' = page_count + 1
    /\ UNCHANGED <<all_records, has_next_page, cursor, records>>

\* One iteration of the while loop: one page request
FetchPage ==
    /\ pc = "loop"
    /\ LoopContinues(has_next_page, page_count, api_config.max_pages)
    /\ net' = Append(net, [call |-> "page", with |-> PageRequest(cursor, api_config),
                            headers |-> headers])
    /\ \/ /\ PageFailure("HTTPError")
          /\ pages' = pages
       \/ \E data \in Bodies(api_config) :
             LET r == PageResult(data, api_config)
             IN  IF r.raised
                 THEN PageFailure("AttributeError") /\ pages' = pages
                 ELSE /\ pages' = Append(pages, [body |-> data, records |-> r.records,
                                               cursor |-> r.cursor])
                      /\ err' = err
                      /\ IF BreaksOnEmpty(r.records)
                         THEN FetchReturns(all_records)
                         ELSE IF BreaksOnSinglePage(api_config)
                              THEN FetchReturns(Extend(all_records, r.records))
                              ELSE /\ pc' = "loop"
                                   /\ page_count' = page_count + 1
                                   /\ all_records' = Extend(all_records, r.records)
                                   /\ cursor' = r.cursor
                                   /\ has_next_page' = HasNext(r.cursor)
                                   /\ records' = records
    /\ UNCHANGED <<entry, env, api_config, creds, headers, idx, counts, entity, written,
                   failed, table, clock, table0, prev>>
    /\ UNCHANGED <<call, other, last_upsert, processVars>>

\* Faulty variant: with the loop condition false the function does not return
ExitLoopSpins ==
    /\ pc = "loop"
    /\ ~LoopContinues(has_next_page, page_count, api_config.max_pages)
    /\ UNCHANGED vars

\* The loop condition is false
ExitLoop ==
    /\ pc = "loop"
    /\ ~LoopContinues(has_next_page, page_count, api_config.max_pages)
    /\ FetchReturns(all_records)
    /\ UNCHANGED <<entry, env, api_config, creds, headers, idx, counts, entity, written,
                   failed, table, clock, err, net, pages, table0, prev>>
    /\ UNCHANGED <<call, other, last_upsert, processVars>>

(***************************************************************************)
(* store_records                                                           *)
(***************************************************************************)
\* Lines 217-228.  get_table_service_client (storage.py) uses the account name
\* when the managed identity client can be set up and the connection string
\* otherwise; with neither it raises.  get_table_client then sends create_table
\* and swallows its failure.
OpenTable ==
    /\ pc = "store_records"
    /\ \E identity_ok \in BOOLEAN :
          IF \/ IsSet(env, "STORAGE_ACCOUNT_NAME") /\ identity_ok
             \/ IsSet(env, "STORAGE_CONNECTION_STRING")
          THEN /\ net' = Append(net, Call("create_table", ""))
               /\ pc' = "record"
               /\ err' = err
               /\ idx' = 1
               /\ counts' = ZeroCounts
          ELSE /\ Raise("ValueError", "table")
               /\ UNCHANGED <<net, idx, counts>>
    /\ UNCHANGED <<entry, env, api_config, creds, headers, fetchVars, records, entity,
                   written, failed, table, clock, table0, prev>>
    /\ UNCHANGED <<call, other, last_upsert, processVars>>

\* The body of the for loop up to the existence check (lines 231-247)
CheckExists ==
    /\ pc = "record"
    /\ idx <= Len(records)
    /\ LET record == records[idx]
       IN  \/ /\ TransformRaises(record)
              /\ failed' = failed \cup {idx}
              /\ IF HandlerRaises(record)
                 THEN Raise("AttributeError", "record") /\ idx' = idx
                 ELSE pc' = pc /\ err' = err /\ idx' = idx + 1
              /\ UNCHANGED <<counts, entity, clock, net>>
           \/ /\ ~TransformRaises(record)
              /\ \E t \in clock..MaxClock :
                    LET e == transform_record_to_entity(record, env.partition_key,
                                 api_config.id_field, env.field_mapping, t)
                    IN  /\ clock' = t
                        /\ net' = Append(net, Call("get_entity", EntityKey(e)))
                        /\ \/ /\ counts' = CountCheck(counts, Exists(table, e))
                              /\ entity' = e
                              /\ pc' = "upsert"
                              /\ UNCHANGED <<idx, failed>>
                           \/ /\ failed' = failed \cup {idx}
                              /\ idx' = idx + 1
                              /\ pc' = pc
                              /\ UNCHANGED <<counts, entity>>
              /\ err' = err
    /\ UNCHANGED <<entry, env, api_config, creds, headers, fetchVars, records, written,
                   table, table0, prev>>
    /\ UNCHANGED <<call, other, last_upsert, processVars>>

\* Faulty variant: a key the table holds is not written again
UpsertStepSkipsExisting ==
    /\ pc = "upsert"
    /\ IF Exists(table, entity)
       THEN /\ written' = written \cup {idx}
            /\ UNCHANGED <<net, table, failed, last_upsert>>
       ELSE /\ net' = Append(net, Call("upsert_entity", EntityKey(entity)))
            /\ table' = upsert_entity(table, entity)
            /\ written' = written \cup {idx}
            /\ failed' = failed
            /\ last_upsert' = (EntityKey(entity) :> entity) @@ last_upsert
    /\ idx' = idx + 1
    /\ pc' = "record"
    /\ entity' = NoEntity
    /\ UNCHANGED <<entry, env, api_config, creds, headers, fetchVars, records, counts,
                   clock, err, table0, prev>>
    /\ UNCHANGED <<call, other, processVars>>

\* Line 250 and the except clause around it
UpsertStep ==
    /\ pc = "upsert"
    /\ net' = Append(net, Call("upsert_entity", EntityKey(entity)))
    /\ \/ /\ table' = upsert_entity(table, entity)
          /\ written' = written \cup {idx}
          /\ failed' = failed
          /\ last_upsert' = (EntityKey(entity) :> entity) @@ last_upsert
       \/ /\ failed' = failed \cup {idx}
          /\ UNCHANGED <<table, written, last_upsert>>
    /\ idx' = idx + 1
    /\ pc' = "record"
    /\ entity' = NoEntity
    /\ UNCHANGED <<entry, env, api_config, creds, headers, fetchVars, records, counts,
                   clock, err, table0, prev>>
    /\ UNCHANGED <<call, other, processVars>>

\* return new_count, update_count; api_data_collector logs them and returns
ReturnCounts ==
    /\ pc = "record"
    /\ idx > Len(records)
    /\ pc' = (IF entry = "run" THEN "done" ELSE "stored")
    /\ UNCHANGED <<entry, env, api_config, creds, headers, fetchVars, storeVars, table,
                   clock, err, net, table0, prev>>
    /\ UNCHANGED <<call, other, last_upsert, processVars>>

Next ==
    \/ StartRun
    \/ AuthUnsupported
    \/ GetSecret
    \/ TokenExchange
    \/ FetchPage
    \/ ExitLoop
    \/ OpenTable
    \/ CheckExists
    \/ UpsertStep
    \/ ReturnCounts

Spec == Init /\ [][Next]_vars

\* Every external call returns or fails, and the interpreter goes on: a step
\* that can be taken is taken.
SpecLive == Spec /\ WF_vars(Next)

(***************************************************************************)
(* fetch_all_records called on its own, with any api_config                *)
(***************************************************************************)
\* The query templates a caller may put in api_config (get_api_config puts none)
FetchQueries ==
    { <<>>,
      <<"{ items(after: \"", "$cursor", "\") { id } }">>,
      <<"{ items(", "first:", " 100) { id } }">> }

FetchConfigs ==
    UNION {{[auth_type |-> a, query_type |-> q, id_field |-> "id",
             response_path |-> ResponsePath(q), pagination_enabled |-> p,
             page_size |-> "100", max_pages |-> n, full_query |-> fq] :
               a \in {"oauth2", "apikey", "bearer"}, p \in BOOLEAN,
               n \in (0 - 1)..(MaxPages + 1),
               fq \in IF q = "graphql" THEN FetchQueries ELSE {<<>>}} :
           q \in {"rest", "graphql"}}

CallFetchAll ==
    /\ pc = "idle"
    /\ \E cfg \in FetchConfigs :
          /\ api_config' = cfg
          /\ env' = MkEnv({}, cfg.auth_type, "", 0, cfg.query_type, <<>>)
    /\ entry' = "fetch"
    /\ pc' = "auth"
    /\ UNCHANGED <<creds, headers, fetchVars, storeVars, table, clock, err, net, table0,
                   prev>>
    /\ UNCHANGED <<call, other, last_upsert, processVars>>

NextFetch ==
    \/ CallFetchAll
    \/ GetSecret
    \/ TokenExchange
    \/ FetchPage
    \/ ExitLoop

SpecFetch == Init /\ [][NextFetch]_vars

(***************************************************************************)
(* fetch_all_records called by one invocation after the other in the same  *)
(* process, the secrets of the Key Vault rotated in between or not         *)
(***************************************************************************)
MaxRuns == 2

\* Faulty variant: the next invocation keeps the headers of the one before
CallFetchAgainCached ==
    /\ entry = "fetch"
    /\ pc \in {"fetched", "failed"}
    /\ headers # NoHeaders
    /\ runs < MaxRuns
    /\ runs' = runs + 1
    /\ vault' \in {vault, vault + 1}
    /\ pc' = "loop"
    /\ net' = <<>>
    /\ pages' = <<>>
    /\ err' = NoError
    /\ records' = <<>>
    /\ all_records' = <<>>
    /\ has_next_page' = TRUE
    /\ cursor' = JNull
    /\ page_count' = 0
    /\ UNCHANGED <<entry, env, api_config, creds, headers, idx, counts, entity, written,
                   failed, table, clock, table0, prev>>
    /\ UNCHANGED <<call, other, last_upsert, secret_client>>

\* The timer fires again: fetch_all_records starts with new locals; what the
\* module keeps (secret_client) stays.
CallFetchAgain ==
    /\ entry = "fetch"
    /\ pc \in {"fetched", "failed"}
    /\ runs < MaxRuns
    /\ runs' = runs + 1
    /\ vault' \in {vault, vault + 1}
    /\ pc' = "auth"
    /\ creds' = <<>>
    /\ headers' = NoHeaders
    /\ net' = <<>>
    /\ pages' = <<>>
    /\ err' = NoError
    /\ records' = <<>>
    /\ all_records' = <<>>
    /\ has_next_page' = TRUE
    /\ cursor' = JNull
    /\ page_count' = 0
    /\ UNCHANGED <<entry, env, api_config, idx, counts, entity, written, failed, table,
                   clock, table0, prev>>
    /\ UNCHANGED <<call, other, last_upsert, secret_client>>

NextRuns ==
    \/ CallFetchAll
    \/ GetSecret
    \/ TokenExchange
    \/ FetchPage
    \/ ExitLoop
    \/ CallFetchAgain

SpecRuns == Init /\ [][NextRuns]_vars

(***************************************************************************)
(* store_records called on its own, and called again with the same list    *)
(***************************************************************************)
StoreRecords == {RecA, RecB, RecU, RecV, Scalar}

Batches == UNION {[1..n -> StoreRecords] : n \in 0..MaxBatch}

CallStoreRecords ==
    /\ pc = "idle"
    /\ \E batch \in Batches, fm \in FieldMappings :
          /\ records' = batch
          /\ env' = MkEnv({}, "apikey", "", 0, "rest", fm)
          /\ api_config' = get_api_config(env')
    /\ entry' = "store"
    /\ pc' = "store_records"
    /\ UNCHANGED <<creds, headers, fetchVars, idx, counts, entity, written, failed, table,
                   clock, err, net, table0, prev>>
    /\ UNCHANGED <<call, other, last_upsert, processVars>>

\* The caller keeps what the first call returned and did, and calls again.
CallStoreAgain ==
    /\ pc = "stored"
    /\ ~prev.called
    /\ prev' = [called |-> TRUE, counts |-> counts, written |-> written,
                failed |-> failed, table0 |-> table0, table |-> table]
    /\ pc' = "store_records"
    /\ table0' = table
    /\ written' = {}
    /\ failed' = {}
    /\ net' = <<>>
    /\ idx' = 0
    /\ counts' = ZeroCounts
    /\ UNCHANGED <<entry, env, api_config, creds, headers, fetchVars, records, entity,
                   table, clock, err>>
    /\ UNCHANGED <<call, other, last_upsert, processVars>>

NextStore ==
    \/ CallStoreRecords
    \/ OpenTable
    \/ CheckExists
    \/ UpsertStep
    \/ ReturnCounts
    \/ CallStoreAgain

SpecStore == Init /\ [][NextStore]_vars

(***************************************************************************)
(* Two store_records calls at once (overlapping timer invocations): each   *)
(* call to the table store is one step, and between any two steps the      *)
(* other call may run.  The variables hold the locals of the call that     *)
(* runs; the locals of the other one are set aside.                        *)
(***************************************************************************)
ConcurrentRecords == {RecA, RecB}

ConcurrentBatches == UNION {[1..n -> ConcurrentRecords] : n \in 1..MaxBatch}

Locals ==
    [pc |-> pc, records |-> records, idx |-> idx, counts |-> counts, entity |-> entity,
     written |-> written, failed |-> failed, err |-> err, net |-> net]

CallStoreConcurrently ==
    /\ pc = "idle"
    /\ \E mine \in ConcurrentBatches, theirs \in ConcurrentBatches :
          /\ records' = mine
          /\ other' = [pc |-> "store_records", records |-> theirs, idx |-> 0,
                       counts |-> ZeroCounts, entity |-> NoEntity, written |-> {},
                       failed |-> {}, err |-> NoError, net |-> <<>>]
    /\ env' = MkEnv({}, "apikey", "", 0, "rest", <<>>)
    /\ api_config' = get_api_config(env')
    /\ entry' = "concurrent"
    /\ pc' = "store_records"
    /\ UNCHANGED <<creds, headers, fetchVars, idx, counts, entity, written, failed, table,
                   clock, err, net, table0, prev, call, last_upsert, processVars>>

\* The scheduler lets the other call run
Switch ==
    /\ entry = "concurrent"
    /\ other.pc \notin {"stored", "failed"}
    /\ other' = Locals
    /\ pc' = other.pc
    /\ records' = other.records
    /\ idx' = other.idx
    /\ counts' = other.counts
    /\ entity' = other.entity
    /\ written' = other.written
    /\ failed' = other.failed
    /\ err' = other.err
    /\ net' = other.net
    /\ UNCHANGED <<entry, env, api_config, creds, headers, fetchVars, table, clock, table0,
                   prev, call, last_upsert, processVars>>

NextConcurrent ==
    \/ CallStoreConcurrently
    \/ OpenTable
    \/ CheckExists
    \/ UpsertStep
    \/ ReturnCounts
    \/ Switch

SpecConcurrent == Init /\ [][NextConcurrent]_vars

(***************************************************************************)
(* The functions without state, each applied on its own to any arguments   *)
(***************************************************************************)
\* The values a response holds at the end of a path, or on the way
ExtractValues ==
    { JList(<<RecA, RecB>>), JList(<<>>), JInt(0), JInt(7), JStr(""), JStr("x"),
      JNull, JBool(FALSE), RecA, JDict(<<>>) }

ExtractBodies ==
    UNION {{ JDict(<< <<"data", JDict(<< <<"items", val>> >>)>> >>),
             JDict(<< <<"items", val>> >>),
             JDict(<< <<"data", val>> >>),
             val } : val \in ExtractValues}

\* response_path.split('.')
ExtractPaths == { <<"items">>, <<"data", "items">>, <<"data">> }

\* GraphQL query texts, cut into pieces around "$cursor", "first:" and "after:"
Queries ==
    { <<"{ items(", "first:", " 10) { id } }">>,
      <<"{ items(after: \"", "$cursor", "\") { id } }">>,
      <<"{ a(c: ", "$cursor", ") b(c: ", "$cursor", ") }">>,
      <<"{ items(", "first:", " 10, ", "after:", " \"old\") { id } }">>,
      <<"{ items(", "first:", " 10, ", "after:", " ", "$cursor", ") { id } }">>,
      <<"{ items { id } }">>,
      <<>> }

CursorTexts == {"abc", "c1"}

PageSizes == {"10", "100"}

\* Records as an API may return them: with and without the id field, with
\* null values, with field names that need sanitising, and with fields
\* named like the key fields of an entity
TransformRecords ==
    { RecA, RecB, RecU,
      JDict(<< <<"id", JNull>>, <<"x", JNull>> >>),
      JDict(<< <<"id", JInt(2)>>, <<"a.b", JStr("v")>>, <<"y", JBool(TRUE)>> >>),
      JDict(<< <<"id", JInt(3)>>, <<"a/b", JInt(7)>> >>),
      JDict(<< <<"id", JInt(4)>>, <<"RowKey", JStr("r")>> >>),
      JDict(<< <<"id", JInt(5)>>, <<"PartitionKey", JStr("p")>>, <<"x", JStr("a")>> >>),
      JDict(<< <<"id", JInt(6)>>, <<"fetched_at", JStr("f")>> >>) }

\* FIELD_MAPPING: none, onto fresh names, and onto the name of a key field
TransformMappings ==
    { <<>>,
      << <<"x", "X">> >>,
      << <<"x", "X">>, <<"y", "Y">> >>,
      << <<"x", "RowKey">> >>,
      << <<"a.b", "PartitionKey">>, <<"x", "X">> >> }

PartitionKeys == {"api_data", "p2"}

runVars ==
    <<pc, entry, env, api_config, creds, headers, all_records, has_next_page, cursor,
      page_count, records, idx, counts, entity, table, clock, err, net, pages,
      written, failed, table0, prev, other, last_upsert, secret_client, vault, runs>>

CallExtract ==
    /\ \E data \in ExtractBodies, path \in ExtractPaths :
          call' = [fn |-> "extract_records_from_response",
                   args |-> <<data, path>>,
                   raised |-> ExtractRaises(data, path),
                   result |-> IF ExtractRaises(data, path) THEN <<>>
                              ELSE extract_records_from_response(data, path)]
    /\ UNCHANGED runVars

CallInject ==
    /\ \E query \in Queries, c \in CursorTexts, page_size \in PageSizes :
          call' = [fn |-> "inject_graphql_cursor",
                   args |-> <<query, c, page_size>>,
                   result |-> inject_graphql_cursor(query, c, page_size)]
    /\ UNCHANGED runVars

CallTransform ==
    /\ \E record \in TransformRecords, partition_key \in PartitionKeys,
          field_mapping \in TransformMappings, t \in 0..MaxClock :
          call' = [fn |-> "transform_record_to_entity",
                   args |-> <<record, partition_key, "id", field_mapping, t>>,
                   result |-> transform_record_to_entity(record, partition_key, "id",
                                                         field_mapping, t)]
    /\ UNCHANGED runVars

\* What a REST body may hold where fetch_rest_page looks for the cursor
CursorValues == {JNull, JStr(""), JStr("c1"), JStr("c2")}

Paginations ==
    { <<>>, << <<"pagination", JNull>> >>, << <<"pagination", JDict(<<>>)>> >>,
      << <<"pagination", JDict(<< <<"cursor", JStr("")>> >>)>> >>,
      << <<"pagination", JDict(<< <<"cursor", JStr("c3")>> >>)>> >> }

Optional(key, values) == {<<>>} \cup {<< <<key, val>> >> : val \in values}

RestCursorBodies ==
    {JDict(a \o b \o c) : a \in Optional("nextCursor", CursorValues),
                          b \in Optional("next", CursorValues),
                          c \in Paginations}
    \cup {JList(<<RecA>>)}

\* Line 124 of fetch_rest_page on the body of a response
CallRestCursor ==
    /\ \E data \in RestCursorBodies :
          call' = [fn |-> "fetch_rest_page",
                   args |-> <<data>>,
                   raised |-> RestCursorRaises(data),
                   result |-> IF RestCursorRaises(data) THEN JNull
                              ELSE RestNextCursor(data)]
    /\ UNCHANGED runVars

NextFunctions ==
    \/ CallExtract
    \/ CallInject
    \/ CallTransform
    \/ CallRestCursor

SpecFunctions == Init /\ [][NextFunctions]_vars

(***************************************************************************)
(* What the properties below speak of                                      *)
(***************************************************************************)
\* The page requests sent in this invocation
PageRequestCount == Cardinality({i \in DOMAIN net : net[i].call = "page"})

Max0(n) == IF n > 0 THEN n ELSE 0

\* A page that returned a non-empty batch and a truthy next cursor
FullPage(p) == p.records # <<>> /\ Truthy(p.cursor)

AllPagesFull == \A i \in DOMAIN pages : FullPage(pages[i])

RECURSIVE ConcatPages(_)
ConcatPages(ps) == IF ps = <<>> THEN <<>> ELSE Head(ps).records \o ConcatPages(Tail(ps))

(***************************************************************************)
(* C1: one call of fetch_all_records issues at most max_pages page         *)
(* requests, and exactly max_pages when pagination is enabled and every    *)
(* page returns a non-empty batch and a truthy cursor.                     *)
(***************************************************************************)
\* C1 as stated: refuted by a negative max_pages, with which the call
\* returns after 0 requests.
C1_Original ==
    pc = "fetched" =>
        /\ PageRequestCount <= api_config.max_pages
        /\ (api_config.pagination_enabled /\ AllPagesFull
               => PageRequestCount = api_config.max_pages)

\* C1 amended: at every moment of a call the page requests issued are at most
\* max(max_pages, 0); a call that returns with pagination enabled after pages
\* that all held a non-empty batch and a truthy cursor has issued exactly
\* max(max_pages, 0) of them.
C1_MaxPageBound ==
    /\ PageRequestCount <= Max0(api_config.max_pages)
    /\ (pc = "fetched" /\ api_config.pagination_enabled /\ AllPagesFull
           => PageRequestCount = Max0(api_config.max_pages))

C1_Witness ==
    /\ pc = "fetched"
    /\ api_config.pagination_enabled
    /\ AllPagesFull
    /\ api_config.max_pages >= 2
    /\ Len(pages) = api_config.max_pages
    /\ PageRequestCount = api_config.max_pages

(***************************************************************************)
(* C2: with pagination enabled, an empty batch on page k >= 2 after full   *)
(* pages 1..k-1 ends the call: no request follows page k and the result    *)
(* is the records of pages 1..k-1, whatever cursor page k carries.         *)
(***************************************************************************)
C2_EmptyPageEndsFetch ==
    \A k \in DOMAIN pages :
        (/\ api_config.pagination_enabled
         /\ k >= 2
         /\ pages[k].records = <<>>
         /\ \A j \in 1..(k - 1) : FullPage(pages[j]))
        => /\ pc = "fetched"
           /\ Len(pages) = k
           /\ PageRequestCount = k
           /\ records = ConcatPages(SubSeq(pages, 1, k - 1))

C2_Witness ==
    /\ pc = "fetched"
    /\ api_config.pagination_enabled
    /\ Len(pages) = 2
    /\ FullPage(pages[1])
    /\ pages[2].records = <<>>
    /\ Truthy(pages[2].cursor)
    /\ records = pages[1].records
    /\ PageRequestCount = 2

(***************************************************************************)
(* C3: with pagination disabled, fetch_all_records issues exactly one page *)
(* request and stops, whatever the page returns and whatever max_pages is. *)
(***************************************************************************)
\* C3 as stated: refuted by max_pages <= 0, with which no page is requested.
C3_Original ==
    (pc = "fetched" /\ ~api_config.pagination_enabled) => PageRequestCount = 1

\* C3 amended: with pagination disabled the call never issues a second page
\* request, it has stopped as soon as it has issued one, and when it returns
\* it has issued exactly one if max_pages >= 1 and none if max_pages <= 0.
C3_SinglePage ==
    ~api_config.pagination_enabled =>
        /\ PageRequestCount <= 1
        /\ (pc = "loop" => PageRequestCount = 0)
        /\ (pc = "fetched" =>
               PageRequestCount = (IF api_config.max_pages >= 1 THEN 1 ELSE 0))

C3_Witness ==
    /\ pc = "fetched"
    /\ ~api_config.pagination_enabled
    /\ api_config.max_pages >= 2
    /\ PageRequestCount = 1
    /\ Len(pages) = 1
    /\ FullPage(pages[1])
    /\ records = pages[1].records

(***************************************************************************)
(* C4: in store_records the failure of one record never aborts the batch:  *)
(* no failure of a record leaves store_records, and when it returns every  *)
(* record of the list has been processed (written, or failed and logged).  *)
(* Refuted by a record that is not a dict: the except clause itself raises.*)
(***************************************************************************)
C4_RecordFailureNeverAborts ==
    /\ err.at # "record"
    /\ (pc = "stored" => written \cup failed = 1..Len(records))

(***************************************************************************)
(* C5: the counts store_records returns add up to the number of records    *)
(* whose entity this call wrote.  Refuted by an upsert that raises after   *)
(* the existence check has counted the record.                             *)
(***************************************************************************)
C5_CountsAreSuccesses ==
    pc = "stored" => counts.new_count + counts.update_count = Cardinality(written)

(***************************************************************************)
(* C6: storing the same record in two successive store_records calls, the  *)
(* table not holding its key before, returns (1, 0) and then (0, 1), and   *)
(* leaves under the key the entity mapped from the record.                 *)
(***************************************************************************)
\* The second call has returned, both calls stored the one record of the list
StoredTwice ==
    /\ pc = "stored"
    /\ prev.called
    /\ Len(records) = 1
    /\ prev.written = {1}
    /\ written = {1}

MappedEntity(record, t) ==
    transform_record_to_entity(record, env.partition_key, api_config.id_field,
                               env.field_mapping, t)

C6_StoreTwice ==
    (StoredTwice /\ EntityKey(MappedEntity(records[1], 0)) \notin DOMAIN prev.table0)
    => /\ prev.counts = [new_count |-> 1, update_count |-> 0]
       /\ counts = [new_count |-> 0, update_count |-> 1]
       /\ EntityKey(MappedEntity(records[1], 0)) \in DOMAIN table
       /\ \E t \in 0..clock :
             table[EntityKey(MappedEntity(records[1], 0))] = MappedEntity(records[1], t)

C6_Witness ==
    /\ StoredTwice
    /\ records = <<RecA>>
    /\ prev.table0 = <<>>
    /\ counts = [new_count |-> 0, update_count |-> 1]
    /\ DOMAIN table = {<<"api_data", "1">>}

(***************************************************************************)
(* C7: a run that fails before store_records (validation, credentials,     *)
(* token exchange, a page request) performs no upsert and leaves the table *)
(* as it was, records of pages already fetched included.                   *)
(***************************************************************************)
NoTableCall ==
    \A i \in DOMAIN net : net[i].call \notin {"create_table", "get_entity", "upsert_entity"}

C7_FailureBeforeStoreLeavesTable ==
    (\/ pc \in {"auth", "token", "loop"}
     \/ err.at \in {"config", "credentials", "token", "page"})
    => table = table0 /\ NoTableCall

C7_Witness ==
    /\ pc = "failed"
    /\ err.at = "page"
    /\ Len(pages) >= 1
    /\ pages[1].records # <<>>
    /\ DOMAIN table # {}
    /\ table = table0

(***************************************************************************)
(* C8: when a required setting is missing the run fails with               *)
(* ConfigurationError before any request is sent to the secret store, the  *)
(* token endpoint, the upstream API or the table store.                    *)
(***************************************************************************)
\* The settings the claim calls required, read off os.environ
RequiredMissing(e) ==
    \/ "KEY_VAULT_URL" \in e.missing
    \/ {"STORAGE_ACCOUNT_NAME", "STORAGE_CONNECTION_STRING"} \subseteq e.missing
    \/ e.missing \cap {"API_BASE_URL", "API_DATA_ENDPOINT", "API_ID_FIELD"} # {}
    \/ e.auth_type = ""
    \/ /\ e.auth_type = "oauth2"
       /\ e.missing \cap {"API_CLIENT_ID_SECRET_NAME", "API_CLIENT_SECRET_SECRET_NAME",
                          "API_TOKEN_URL"} # {}
    \/ e.auth_type \in {"apikey", "bearer"} /\ "API_KEY_SECRET_NAME" \in e.missing

C8_MissingSettingFailsFast ==
    (entry = "run" /\ RequiredMissing(env))
    => pc = "failed" /\ err = [type |-> "ConfigurationError", at |-> "config"] /\ net = <<>>

C8_Witness ==
    /\ entry = "run"
    /\ env.auth_type = "oauth2"
    /\ env.missing = {"API_TOKEN_URL"}
    /\ pc = "failed"
    /\ err.type = "ConfigurationError"
    /\ net = <<>>

(***************************************************************************)
(* C9: a page request answered with a non-2xx status is the last request   *)
(* of the run and its failure is re-raised; only run-aborting failures are *)
(* re-raised, never the failure of an individual record.  The second half  *)
(* is refuted by the record failure of C4, which leaves store_records.     *)
(***************************************************************************)
C9_OnlyAbortingFailuresRaised ==
    /\ (err = [type |-> "HTTPError", at |-> "page"]
           => pc = "failed" /\ net[Len(net)].call = "page")
    /\ (pc = "failed" => err.at \in {"config", "credentials", "token", "page", "table"})

(***************************************************************************)
(* C10: an upsert of an entity whose key is already stored replaces the    *)
(* stored entity: afterwards the stored entity is the written one, with no *)
(* field of the prior entity surviving.  Refuted: upsert_entity is called  *)
(* without a mode and merges.                                              *)
(***************************************************************************)
C10_UpsertReplaces ==
    [][(pc = "upsert" /\ written' # written)
          => table'[EntityKey(entity)] = entity]_vars

(***************************************************************************)
(* C11: a record lacking the id field maps to row key "unknown"; when a    *)
(* batch holds several such records and all are stored, the table holds    *)
(* under (partition_key, "unknown") the entity of the last of them, the    *)
(* earlier ones overwritten.  Refuted by the merge of C10: a field only    *)
(* an earlier record had stays in the stored entity.                       *)
(***************************************************************************)
\* The positions of the records of the batch that have no id field
WithoutId ==
    {i \in DOMAIN records :
        IsDict(records[i]) /\ ~HasKey(records[i], api_config.id_field)}

LastOf(S) == CHOOSE i \in S : \A j \in S : j <= i

C11_UnknownKeyHoldsLast ==
    (pc = "stored" /\ failed = {} /\ Cardinality(WithoutId) >= 2)
    => /\ \A i \in WithoutId : MappedEntity(records[i], 0)["RowKey"] = "unknown"
       /\ <<env.partition_key, "unknown">> \in DOMAIN table
       /\ \E t \in 0..MaxClock :
             table[<<env.partition_key, "unknown">>]
                 = MappedEntity(records[LastOf(WithoutId)], t)

(***************************************************************************)
(* C12: extract_records_from_response returns the list a dotted path       *)
(* resolves to, unchanged; the empty list for a path with a missing key;   *)
(* [x] for a path resolving to a truthy non-list x; and the empty list for *)
(* a path resolving to a falsy non-list value.  A key is missing when the  *)
(* mapping it is looked up in lacks it; a key applied to a value that is   *)
(* not a mapping is the case of C24.                                       *)
(***************************************************************************)
RECURSIVE Resolve(_, _)
\* What the path does in the body, each key looked up in turn: it resolves
\* to a value ("found"), a mapping lacks a key ("missing"), or a key is
\* applied to a value that is not a mapping ("stopped", with that value).
Resolve(data, path) ==
    IF path = <<>> THEN [kind |-> "found", value |-> data]
    ELSE IF ~IsDict(data) THEN [kind |-> "stopped", value |-> data]
    ELSE IF HasKey(data, Head(path))
         THEN Resolve(DictGet(data, Head(path), JNull), Tail(path))
         ELSE [kind |-> "missing", value |-> JNull]

\* The final coercion of a value to a sequence
AsSequence(value) ==
    IF value.t = "list" THEN value.v
    ELSE IF Truthy(value) THEN <<value>>
    ELSE <<>>

C12_ExtractCases ==
    call.fn = "extract_records_from_response" =>
        LET r == Resolve(call.args[1], call.args[2])
        IN  /\ r.kind = "found" /\ r.value.t = "list" => call.result = r.value.v
            /\ r.kind = "missing" => call.result = <<>>
            /\ r.kind = "found" /\ r.value.t # "list" /\ Truthy(r.value)
                   => call.result = <<r.value>>
            /\ r.kind = "found" /\ r.value.t # "list" /\ ~Truthy(r.value)
                   => call.result = <<>>

C12_Witness ==
    /\ call.fn = "extract_records_from_response"
    /\ call.args = <<JDict(<< <<"data", JDict(<< <<"items", JInt(0)>> >>)>> >>),
                     <<"data", "items">> >>
    /\ call.result = <<>>

(***************************************************************************)
(* C13: inject_graphql_cursor replaces every "$cursor" of a query by the   *)
(* cursor; otherwise a query with "first:" and no "after:" gets the cursor *)
(* inserted, so that { items(first: 10) { id } } with cursor abc and page  *)
(* size 10 becomes { items(first: 10, after: "abc",) { id } }; otherwise   *)
(* the query is returned unmodified.  Refuted on the example: the text     *)
(* put in place of "first:" brings its own page size and the query keeps   *)
(* the one it had.                                                         *)
(***************************************************************************)
RECURSIVE Text(_)
\* The query text: its pieces joined
Text(query) == IF query = <<>> THEN "" ELSE Head(query) \o Text(Tail(query))

Holds(query, piece) == \E i \in DOMAIN query : query[i] = piece

C13_InjectCursor ==
    call.fn = "inject_graphql_cursor" =>
        LET query == call.args[1]
            c == call.args[2]
            page_size == call.args[3]
        IN  IF Holds(query, "$cursor")
            THEN /\ ~Holds(call.result, "$cursor")
                 /\ Len(call.result) = Len(query)
                 /\ \A i \in DOMAIN query :
                       call.result[i] = IF query[i] = "$cursor" THEN c ELSE query[i]
            ELSE IF Holds(query, "first:") /\ ~Holds(query, "after:")
                 THEN /\ call.result # query
                      /\ (Text(query) = "{ items(first: 10) { id } }"
                          /\ c = "abc" /\ page_size = "10"
                             => Text(call.result)
                                  = "{ items(first: 10, after: \"abc\",) { id } }")
                 ELSE call.result = query

(***************************************************************************)
(* C14: for oauth2, apikey and bearer, get_auth_headers returns exactly    *)
(* Content-Type: application/json and Authorization: Bearer <value>, the   *)
(* value being the exchanged access token for oauth2 (never the client     *)
(* secret) and the stored key for apikey and bearer; for any other auth    *)
(* type it fails and no headers are returned.                              *)
(***************************************************************************)
\* The steps of a run that follow the return of get_auth_headers
HeadersReturned ==
    \/ pc \in {"loop", "store_records", "record", "upsert", "done"}
    \/ pc = "failed" /\ err.at \in {"page", "table", "record"}

BearerHeaders(value) ==
    [name \in {"Content-Type", "Authorization"} |->
        IF name = "Content-Type" THEN "application/json" ELSE "Bearer " \o value]

C14_AuthHeaders ==
    entry = "run" =>
        /\ HeadersReturned =>
              /\ api_config.auth_type \in {"oauth2", "apikey", "bearer"}
              /\ headers = IF api_config.auth_type = "oauth2"
                           THEN BearerHeaders("tok1")
                           ELSE BearerHeaders(SecretValue("api_key", vault))
              /\ headers["Authorization"]
                    # "Bearer " \o SecretValue("client_secret", vault)
        /\ ~HeadersReturned => headers = NoHeaders
        /\ (pc # "idle" /\ env.auth_type \notin {"", "oauth2", "apikey", "bearer"})
              => ~HeadersReturned /\ pc \in {"auth", "failed"}

C14_Witness ==
    /\ entry = "run"
    /\ api_config.auth_type = "oauth2"
    /\ creds = <<SecretValue("client_id", vault), SecretValue("client_secret", vault)>>
    /\ pc = "loop"
    /\ headers["Authorization"] = "Bearer tok1"

(***************************************************************************)
(* C15: for oauth2, when the token endpoint answers with a non-2xx status  *)
(* or a body without a non-empty access_token, the exchange fails: it is   *)
(* not retried (one token request in the run), no request is sent to the   *)
(* upstream API, and the run aborts.                                       *)
(***************************************************************************)
Calls(service) == Cardinality({i \in DOMAIN net : net[i].call = service})

\* The headers carry a token only when the endpoint returned a non-empty one;
\* every other answer has ended the run at the token step.
C15_TokenFailureAborts ==
    entry = "run" =>
        /\ Calls("token") <= 1
        /\ err.at = "token" =>
              /\ pc = "failed"
              /\ err.type \in {"HTTPError", "ValueError"}
              /\ Calls("token") = 1
              /\ Calls("page") = 0
              /\ NoTableCall
              /\ headers = NoHeaders
        /\ (api_config.auth_type = "oauth2" /\ Calls("page") > 0)
              => /\ Calls("token") = 1
                 /\ headers["Authorization"] \notin {"", "Bearer ", "Bearer None"}

C15_Witness ==
    /\ entry = "run"
    /\ api_config.auth_type = "oauth2"
    /\ pc = "failed"
    /\ err = [type |-> "ValueError", at |-> "token"]
    /\ Calls("token") = 1
    /\ Calls("page") = 0

(***************************************************************************)
(* C16: two store_records calls running at once on overlapping keys never  *)
(* corrupt the table: each key holds one entity, and when both calls have  *)
(* returned each written key holds exactly the entity of the upsert that   *)
(* came last.  Refuted by the merge of C10, on a table empty before the    *)
(* two calls: the entity left under a key mixes the fields of the two      *)
(* calls' entities.                                                        *)
(***************************************************************************)
BothReturned ==
    entry = "concurrent" /\ table0 = <<>> /\ pc = "stored" /\ other.pc = "stored"

C16_LastWriteWins ==
    entry = "concurrent" =>
        /\ \A key \in DOMAIN table : EntityKey(table[key]) = key
        /\ BothReturned =>
              \A key \in DOMAIN last_upsert :
                  key \in DOMAIN table /\ table[key] = last_upsert[key]

(***************************************************************************)
(* C17: the list fetch_all_records returns is the concatenation, in page   *)
(* order, of the batches extracted from the pages fetched, each batch in   *)
(* response order: the loop drops, duplicates and reorders nothing.        *)
(***************************************************************************)
C17_ResultIsConcatenation ==
    /\ pc = "loop" => all_records = ConcatPages(pages)
    /\ pc = "fetched" => records = ConcatPages(pages)

C17_Witness ==
    /\ pc = "fetched"
    /\ Len(pages) = 2
    /\ pages[1].records = <<RecA>>
    /\ pages[2].records = <<RecB, RecU>>
    /\ records = <<RecA, RecB, RecU>>

(***************************************************************************)
(* C18: the collector never deletes an entity.  In every step of a run,    *)
(* whatever the table held when the run began and however the run ends,    *)
(* the keys present in the table stay present, and the table changes only  *)
(* in a step that is an upsert_entity call.                                *)
(***************************************************************************)
C18_NeverDeletes ==
    [][/\ DOMAIN table \subseteq DOMAIN table'
       /\ table' # table
             => /\ pc = "upsert"
                /\ net' = Append(net, Call("upsert_entity", EntityKey(entity)))]_vars

\* A run that stored one record and failed on another, on a table that held
\* an entity before
C18_Witness ==
    /\ pc = "done"
    /\ written # {}
    /\ failed # {}
    /\ DOMAIN table0 # {}
    /\ DOMAIN table0 \subseteq DOMAIN table
    /\ DOMAIN table # DOMAIN table0

(***************************************************************************)
(* C19: with pagination enabled, a page that yields a non-empty batch and  *)
(* a falsy next cursor (absent, null or the empty string) is the last      *)
(* page requested, max_pages reached or not, and its records are part of   *)
(* the result.                                                             *)
(***************************************************************************)
\* A page with records and no cursor to go on with
EndPage(p) == p.records # <<>> /\ ~Truthy(p.cursor)

C19_FalsyCursorEndsFetch ==
    api_config.pagination_enabled =>
        \A i \in DOMAIN pages :
            EndPage(pages[i]) =>
                /\ i = Len(pages)
                /\ PageRequestCount = i
                /\ pc \in {"loop", "fetched"}
                /\ pc = "loop" => ~has_next_page /\ all_records = ConcatPages(pages)
                /\ pc = "fetched" => records = ConcatPages(pages)

C19_Witness ==
    /\ pc = "fetched"
    /\ api_config.pagination_enabled
    /\ Len(pages) = 2
    /\ FullPage(pages[1])
    /\ pages[2].records # <<>>
    /\ pages[2].cursor = JStr("")
    /\ PageRequestCount = 2
    /\ api_config.max_pages = 3
    /\ records = pages[1].records \o pages[2].records

(***************************************************************************)
(* C20: within one run the first page request carries no cursor and every  *)
(* later page request carries exactly the next cursor extracted from the   *)
(* response of the page before it; a REST request is ?limit=<page_size>,   *)
(* with &cursor=<cursor> appended only when a cursor is held.              *)
(***************************************************************************)
\* The page requests of the invocation, in the order sent
PageRequests ==
    LET calls == SelectSeq(net, LAMBDA c : c.call = "page")
    IN  [i \in DOMAIN calls |-> calls[i]["with"]]

CarriesNoCursor(request) ==
    IF request.method = "GET" THEN request.cursor = JNull
    ELSE request.query = api_config.full_query

CarriesCursor(request, c) ==
    /\ c.t = "str"
    /\ IF request.method = "GET" THEN request.cursor = c
       ELSE Holds(request.query, c.v)
            \/ Holds(request.query,
                     "first: " \o api_config.page_size \o ", after: \"" \o c.v \o "\",")

RestFormat(request) ==
    request.method = "GET" => request.limit = api_config.page_size

\* C20 as stated: refuted by a GraphQL query without "$cursor" and without
\* "first:", the empty query of get_api_config's api_config among them, which
\* is sent unmodified for every page.
C20_Original ==
    \A i \in DOMAIN PageRequests :
        /\ RestFormat(PageRequests[i])
        /\ IF i = 1 THEN CarriesNoCursor(PageRequests[i])
           ELSE CarriesCursor(PageRequests[i], pages[i - 1].cursor)

\* The query template lets inject_graphql_cursor put a cursor in
TakesCursor(query) ==
    Holds(query, "$cursor") \/ (Holds(query, "first:") /\ ~Holds(query, "after:"))

\* C20 amended: the claim holds for every REST request, and for the GraphQL
\* requests whose query template holds "$cursor", or "first:" without
\* "after:"; with any other template every GraphQL request is the template,
\* unmodified, and carries no cursor.  No request carries an older cursor.
C20_CursorThreading ==
    \A i \in DOMAIN PageRequests :
        LET request == PageRequests[i]
        IN  /\ RestFormat(request)
            /\ IF i = 1 THEN CarriesNoCursor(request)
               ELSE /\ Truthy(pages[i - 1].cursor)
                    /\ IF request.method = "GET" \/ TakesCursor(api_config.full_query)
                       THEN /\ CarriesCursor(request, pages[i - 1].cursor)
                            /\ \A j \in 1..(i - 2) :
                                  pages[j].cursor # pages[i - 1].cursor
                                     => ~CarriesCursor(request, pages[j].cursor)
                       ELSE request.query = api_config.full_query

C20_Witness ==
    /\ api_config.query_type = "rest"
    /\ Len(PageRequests) = 3
    /\ pages[1].cursor = JStr("c1")
    /\ pages[2].cursor = JStr("c2")
    /\ PageRequests[1].cursor = JNull
    /\ PageRequests[2].cursor = JStr("c1")
    /\ PageRequests[3].cursor = JStr("c2")

(***************************************************************************)
(* C21: for every record that maps to an entity, store_records performs    *)
(* the existence check and then calls upsert_entity exactly once, whatever *)
(* the outcome of the check; the write is the same for a record counted    *)
(* new and one counted update.                                             *)
(***************************************************************************)
\* The calls to the table of the entities, in the order made
EntityCalls == SelectSeq(net, LAMBDA c : c.call \in {"get_entity", "upsert_entity"})

\* Each upsert_entity call comes right after the get_entity call of its key
UpsertFollowsCheck ==
    \A i \in DOMAIN EntityCalls :
        EntityCalls[i].call = "upsert_entity"
            => /\ i > 1
               /\ EntityCalls[i - 1].call = "get_entity"
               /\ EntityCalls[i - 1]["with"] = EntityCalls[i]["with"]

\* C21 as stated: refuted by an existence check that raises an error other
\* than ResourceNotFoundError, after which the record is not upserted.
C21_Original ==
    (entry = "store" /\ pc = "stored") =>
        /\ UpsertFollowsCheck
        /\ Calls("get_entity") = Len(records)
        /\ Calls("upsert_entity") = Len(records)

\* C21 amended: every record is checked once; each upsert_entity call comes
\* right after the check of its key, with the entity mapped before the check,
\* whichever counter the check incremented; the records without an upsert
\* call are failed records (their check raised), and every record that did
\* not fail has been written.
C21_CheckThenUpsert ==
    entry = "store" =>
        /\ UpsertFollowsCheck
        /\ pc = "upsert" =>
              /\ entity = MappedEntity(records[idx], clock)
              /\ net[Len(net)] = Call("get_entity", EntityKey(entity))
        /\ pc = "stored" =>
              /\ Calls("get_entity") = Len(records)
              /\ Calls("upsert_entity") >= Cardinality(written)
              /\ Calls("upsert_entity") <= Cardinality(written) + Cardinality(failed)
              /\ written \cup failed = 1..Len(records)
              /\ written \cap failed = {}

\* A call that counted one record as update and one as new and wrote both
C21_Witness ==
    /\ entry = "store"
    /\ ~prev.called
    /\ pc = "stored"
    /\ Len(records) = 2
    /\ counts = [new_count |-> 1, update_count |-> 1]
    /\ written = {1, 2}
    /\ Calls("get_entity") = 2
    /\ Calls("upsert_entity") = 2
(***************************************************************************)
(* C24: extract_records_from_response never raises, for any response body  *)
(* and any dotted path: a path with a key its mapping lacks gives the      *)
(* empty result, and a key applied to a value that is not a mapping stops  *)
(* the traversal, the value reached so far being returned after the final  *)
(* coercion to a sequence.                                                 *)
(***************************************************************************)
C24_NeverRaises ==
    call.fn = "extract_records_from_response" =>
        LET r == Resolve(call.args[1], call.args[2])
        IN  /\ ~call.raised
            /\ r.kind = "missing" => call.result = <<>>
            /\ r.kind = "stopped" => call.result = AsSequence(r.value)

C24_Witness ==
    /\ call.fn = "extract_records_from_response"
    /\ call.args = <<JDict(<< <<"data", JStr("x")>> >>), <<"data", "items">> >>
    /\ ~call.raised
    /\ call.result = <<JStr("x")>>
(***************************************************************************)
(* C22: every entity written has the configured partition key as its       *)
(* PartitionKey and the string form of the record's id_field value         *)
(* ("unknown" when the record lacks it) as its RowKey, whatever the record *)
(* holds and in both mapping modes, records and field mappings with fields *)
(* named PartitionKey, RowKey or fetched_at included.  Refuted: the fields *)
(* copied after the key fields are set overwrite them.                     *)
(***************************************************************************)
C22_EntityKey ==
    call.fn = "transform_record_to_entity" =>
        LET record == call.args[1]
            partition_key == call.args[2]
            id_field == call.args[3]
        IN  /\ call.result["PartitionKey"] = partition_key
            /\ call.result["RowKey"]
                   = IF HasKey(record, id_field)
                     THEN PyStr(DictGet(record, id_field, JNull))
                     ELSE "unknown"
(***************************************************************************)
(* C23: transform_record_to_entity copies fields in one of two modes.      *)
(* With a non-empty field_mapping the entity holds, besides the key fields *)
(* and fetched_at, exactly the mapped target keys, each the string form of *)
(* the record's source field ("" when that field is absent or null), and   *)
(* no unmapped record field.  With no mapping it holds every record field  *)
(* under its key with "." and "/" replaced by "_", each value in string    *)
(* form, null as "".                                                       *)
(***************************************************************************)
KeyFields == {"PartitionKey", "RowKey", "fetched_at"}

\* The string form of a record's field, "" when absent or null
StringForm(record, field) ==
    IF ~HasKey(record, field) \/ DictGet(record, field, JNull).t = "null" THEN ""
    ELSE PyStr(DictGet(record, field, JNull))

C23_TwoModes ==
    call.fn = "transform_record_to_entity" =>
        LET record == call.args[1]
            field_mapping == call.args[4]
            result == call.result
        IN  IF field_mapping # <<>>
            THEN /\ DOMAIN result
                      = KeyFields \cup {field_mapping[i][2] : i \in DOMAIN field_mapping}
                 /\ \A i \in DOMAIN field_mapping :
                       result[field_mapping[i][2]] = StringForm(record, field_mapping[i][1])
            ELSE /\ DOMAIN result
                      = KeyFields \cup {SafeKey(record.v[i][1]) : i \in DOMAIN record.v}
                 /\ \A i \in DOMAIN record.v :
                       result[SafeKey(record.v[i][1])] = StringForm(record, record.v[i][1])

C23_Witness ==
    /\ call.fn = "transform_record_to_entity"
    /\ call.args[1] = JDict(<< <<"id", JInt(2)>>, <<"a.b", JStr("v")>>, <<"y", JBool(TRUE)>> >>)
    /\ call.args[4] = <<>>
    /\ call.result["a_b"] = "v" /\ call.result["y"] = "True" /\ call.result["id"] = "2"
(***************************************************************************)
(* C25: for REST the next cursor of a page is the first non-empty value    *)
(* among the body's nextCursor, next and pagination.cursor, and is falsy   *)
(* when all three are absent or empty, for every response body, those      *)
(* without a pagination mapping included.  Refuted by a body whose         *)
(* pagination is not a mapping, and by a body that is not a mapping: the   *)
(* page fetch raises instead of returning a cursor.                        *)
(***************************************************************************)
\* The values the body offers as a cursor, in the order they are tried
CursorCandidates(data) ==
    IF ~IsDict(data) THEN <<>>
    ELSE LET pagination == DictGet(data, "pagination", JNull)
         IN  << DictGet(data, "nextCursor", JNull),
                DictGet(data, "next", JNull),
                IF IsDict(pagination) THEN DictGet(pagination, "cursor", JNull) ELSE JNull >>

NonEmpty(candidates) == {i \in DOMAIN candidates : Truthy(candidates[i])}

C25_RestCursor ==
    call.fn = "fetch_rest_page" =>
        LET candidates == CursorCandidates(call.args[1])
        IN  /\ ~call.raised
            /\ IF NonEmpty(candidates) = {}
               THEN ~Truthy(call.result)
               ELSE call.result
                      = candidates[CHOOSE i \in NonEmpty(candidates) :
                                       \A j \in NonEmpty(candidates) : i <= j]
(***************************************************************************)
(* C26: for GraphQL the next cursor of a page is data.pageInfo.endCursor   *)
(* only when data.pageInfo.hasNextPage is true, and none otherwise, so a   *)
(* run requests no page after the first one whose hasNextPage is false or  *)
(* missing, an endCursor on that page notwithstanding; the query of the    *)
(* first page is sent as configured, no cursor injected.                   *)
(***************************************************************************)
\* data.pageInfo of a response body, empty when the body has none
PageInfoOf(body) ==
    LET data == DictGet(body, "data", JDict(<<>>))
    IN  DictGet(data, "pageInfo", JDict(<<>>))

HasNextPage(body) == DictGet(PageInfoOf(body), "hasNextPage", JBool(FALSE)) = JBool(TRUE)

C26_GraphqlCursor ==
    api_config.query_type = "graphql" =>
        /\ \A i \in DOMAIN pages :
              /\ pages[i].cursor = IF HasNextPage(pages[i].body)
                                   THEN DictGet(PageInfoOf(pages[i].body), "endCursor", JNull)
                                   ELSE JNull
              /\ ~HasNextPage(pages[i].body) =>
                    /\ i = Len(pages)
                    /\ PageRequestCount = i
                    /\ pc \in {"loop", "fetched"}
                    /\ pc = "loop" => ~has_next_page
        /\ PageRequests # <<>> => PageRequests[1].query = api_config.full_query

C26_Witness ==
    /\ api_config.query_type = "graphql"
    /\ api_config.pagination_enabled
    /\ api_config.max_pages = 3
    /\ TakesCursor(api_config.full_query)
    /\ pc = "fetched"
    /\ Len(pages) = 2
    /\ HasNextPage(pages[1].body)
    /\ pages[2].records # <<>>
    /\ PageInfoOf(pages[2].body)
          = JDict(<< <<"hasNextPage", JBool(FALSE)>>, <<"endCursor", JStr("c2")>> >>)
    /\ PageRequestCount = 2
(***************************************************************************)
(* C27: credentials are resolved exactly once per run, at its start, and   *)
(* do not change during it: every page request of a run carries the same   *)
(* Authorization header, with oauth2 exactly one token exchange is made    *)
(* per run, and no token or secret value obtained in one run is used by a  *)
(* later run: the header is made of the secret the Key Vault holds in this *)
(* run, or of the token issued to this run.                                *)
(***************************************************************************)
SecretCalls == SelectSeq(net, LAMBDA c : c.call = "get_secret")

\* The Authorization header of a run that resolves its credentials itself
RunAuthorization ==
    "Bearer " \o (IF api_config.auth_type = "oauth2" THEN "tok" \o ToString(runs)
                  ELSE SecretValue("api_key", vault))

C27_CredentialsPerRun ==
    entry = "fetch" =>
        LET names == SecretNames(api_config.auth_type)
            oauth2 == api_config.auth_type = "oauth2"
        IN  /\ Len(SecretCalls) <= Len(names)
            /\ \A i \in DOMAIN SecretCalls : SecretCalls[i]["with"] = names[i]
            /\ Calls("token") <= (IF oauth2 THEN 1 ELSE 0)
            /\ \A i \in DOMAIN net :
                  /\ net[i].call = "token"
                        => net[i]["with"] = << SecretValue("client_id", vault),
                                               SecretValue("client_secret", vault) >>
                  /\ net[i].call = "page"
                        => /\ Len(SecretCalls) = Len(names)
                           /\ oauth2 => Calls("token") = 1
                           /\ \A j \in DOMAIN net :
                                 net[j].call \in {"get_secret", "token"} => j < i
                           /\ net[i].headers["Authorization"] = RunAuthorization
            /\ runs > 1 /\ SecretCalls # <<>> => secret_client = "SecretClient"

C27_Witness ==
    /\ entry = "fetch"
    /\ runs = 2
    /\ vault = 2
    /\ api_config.auth_type = "oauth2"
    /\ pc = "fetched"
    /\ Calls("get_secret") = 2
    /\ Calls("token") = 1
    /\ PageRequestCount = 2
    /\ \A i \in DOMAIN net :
          net[i].call = "page" => net[i].headers["Authorization"] = "Bearer tok2"
(***************************************************************************)
(* C28: the counts of concurrent runs are not meaningful.  There is an     *)
(* interleaving of two runs storing a record with the same key, absent     *)
(* before, in which both make their existence check before either          *)
(* upserts: both count the key as new, and the sum of the two new_counts   *)
(* exceeds the number of entities created.  The interleaving is the state  *)
(* of C28_Witness; the formula states what holds in it on the way: with    *)
(* both checks made and no upsert yet, each run has counted the key as     *)
(* new, and entities are never created without being counted.              *)
(***************************************************************************)
\* The number of keys the table holds now and did not hold before
Created == Cardinality(DOMAIN table \ DOMAIN table0)

\* Both runs have checked the same absent key and neither has upserted it
BothChecked ==
    /\ entry = "concurrent"
    /\ pc = "upsert"
    /\ other.pc = "upsert"
    /\ EntityKey(entity) = EntityKey(other.entity)
    /\ EntityKey(entity) \notin DOMAIN table

C28_BothCountNew ==
    entry = "concurrent" =>
        /\ BothChecked =>
              /\ counts.new_count >= 1
              /\ other.counts.new_count >= 1
              /\ counts.new_count + other.counts.new_count >= Created + 2
        /\ other.pc # "none" => counts.new_count + other.counts.new_count >= Created

C28_Witness ==
    /\ BothReturned
    /\ records = <<RecA>>
    /\ other.records = <<RecA>>
    /\ counts = [new_count |-> 1, update_count |-> 0]
    /\ other.counts = [new_count |-> 1, update_count |-> 0]
    /\ written = {1}
    /\ other.written = {1}
    /\ Created = 1
(***************************************************************************)
(* C29: every run terminates.  Provided each external call (secret lookup, *)
(* token exchange, page request, store operation) returns or fails, a run  *)
(* eventually reaches its completed state or its failed state, for every   *)
(* finite max_pages and every sequence of upstream responses, an upstream  *)
(* that returns a non-empty batch and a cursor for every request included. *)
(***************************************************************************)
Terminated == pc \in {"done", "failed"}

C29_Terminates == <>Terminated

C29_Witness ==
    /\ pc = "done"
    /\ api_config.pagination_enabled
    /\ api_config.max_pages = MaxPages
    /\ PageRequestCount = MaxPages
    /\ AllPagesFull
(***************************************************************************)
(* C30: in a store_records call with no concurrent writer and no failing   *)
(* record, new_count is the number of distinct row keys of the batch that  *)
(* the store did not hold before the call, update_count is len(records)    *)
(* minus new_count (a key repeated in the batch is counted new once and    *)
(* update for each repeat), and the store holds exactly new_count more     *)
(* keys; in every case new_count + update_count <= len(records).           *)
(***************************************************************************)
\* The keys of the batch
BatchKeys == {EntityKey(MappedEntity(records[i], 0)) : i \in DOMAIN records}

C30_CountsMatchKeys ==
    entry = "store" =>
        /\ counts.new_count + counts.update_count <= Len(records)
        /\ pc = "stored" /\ failed = {} =>
              LET absent == BatchKeys \ DOMAIN table0
              IN  /\ counts.new_count = Cardinality(absent)
                  /\ counts.update_count = Len(records) - counts.new_count
                  /\ Cardinality(DOMAIN table)
                        = Cardinality(DOMAIN table0) + counts.new_count

C30_Witness ==
    /\ entry = "store"
    /\ pc = "stored"
    /\ failed = {}
    /\ table0 = <<>>
    /\ records = <<RecU, RecV>>
    /\ counts = [new_count |-> 1, update_count |-> 1]
    /\ DOMAIN table = {<<"api_data", "unknown">>}

====
